---- MODULE Spec2Model ----
(***************************************************************************)
(* Finite-field arithmetic (FieldElement) and the elliptic-curve point     *)
(* group (Point) of ecc/src/main.rs.                                       *)
(*                                                                         *)
(* value and magnitude are Rust i32.  An arithmetic overflow panics in a   *)
(* build with overflow checks (debug) and wraps modulo 2^32 in a build     *)
(* without them (release); `build` fixes which one a behaviour runs.  The  *)
(* model checker's own integers are 32 bits wide and refuse to overflow,   *)
(* so the wrapping operators below never form a value outside i32.         *)
(***************************************************************************)
EXTENDS Integers, Sequences, FiniteSets, TLC

VARIABLES build, x, y, ret, call, a, b, P, Q, pret, pcall

fvars == << build, x, y, ret, call >>
pvars == << a, b, P, Q, pret, pcall >>
vars == << build, x, y, ret, call, a, b, P, Q, pret, pcall >>

---------------------------------------------------------------------------
(* i32 *)

MaxI32 == 2147483647
MinI32 == -2147483647 - 1

Abs(n) == IF n < 0 THEN -n ELSE n

\* the mathematical sum lies outside i32
AddOverflows(m, n) ==
    \/ m > 0 /\ n > 0 /\ m > MaxI32 - n
    \/ m < 0 /\ n < 0 /\ m < MinI32 - n

\* m + n modulo 2^32, as a signed 32-bit value
WrapAdd(m, n) ==
    IF m > 0 /\ n > 0 /\ m > MaxI32 - n THEN (m + MinI32) + (n + MinI32)
    ELSE IF m < 0 /\ n < 0 /\ m < MinI32 - n THEN (m - MinI32) + (n - MinI32)
    ELSE m + n

WrapNeg(n) == IF n = MinI32 THEN MinI32 ELSE -n

SubOverflows(m, n) ==
    IF n = MinI32 THEN m >= 0 ELSE AddOverflows(m, -n)

WrapSub(m, n) ==
    IF n = MinI32
    THEN (IF m >= 0 THEN m + MinI32 ELSE m - MinI32)
    ELSE WrapAdd(m, -n)

\* the mathematical product lies outside i32
MulOverflows(m, n) ==
    IF m = 0 \/ n = 0 THEN FALSE
    ELSE IF m = MinI32 THEN n # 1
    ELSE IF n = MinI32 THEN m # 1
    ELSE IF (m > 0) = (n > 0) THEN Abs(m) > MaxI32 \div Abs(n)
    ELSE /\ Abs(m) > MaxI32 \div Abs(n)
         /\ ~ ( /\ Abs(m) = (MaxI32 \div Abs(n)) + 1
                /\ Abs(n) * (MaxI32 \div Abs(n)) = (MaxI32 - Abs(n)) + 1 )

\* m * n modulo 2^32, by shift-and-add on the bits of n
RECURSIVE WrapMulNat(_, _)
WrapMulNat(m, n) ==
    IF n = 0 THEN 0
    ELSE IF n % 2 = 1 THEN WrapAdd(m, WrapMulNat(WrapAdd(m, m), n \div 2))
    ELSE WrapMulNat(WrapAdd(m, m), n \div 2)

WrapMul(m, n) ==
    IF ~MulOverflows(m, n) THEN m * n
    ELSE IF n >= 0 THEN WrapMulNat(m, n)
    ELSE IF n = MinI32 THEN (IF m % 2 = 0 THEN 0 ELSE MinI32)
    ELSE WrapNeg(WrapMulNat(m, -n))

\* Rust's / and % truncate toward zero; both panic on a zero divisor and on
\* MinI32 / -1, whatever the build.
DivPanics(m, n) == n = 0 \/ (m = MinI32 /\ n = -1)

DivT(m, n) ==
    IF n = MinI32 THEN (IF m = MinI32 THEN 1 ELSE 0)
    ELSE IF m = MinI32
         THEN LET q == (MaxI32 \div Abs(n))
                        + (IF (MaxI32 % Abs(n)) + 1 = Abs(n) THEN 1 ELSE 0)
              IN  IF n > 0 THEN -q ELSE q
    ELSE LET q == Abs(m) \div Abs(n)
         IN  IF (m < 0) = (n < 0) THEN q ELSE -q

RemT(m, n) ==
    IF n = MinI32 THEN (IF m = MinI32 THEN 0 ELSE m)
    ELSE IF m = MinI32 THEN -(((MaxI32 % Abs(n)) + 1) % Abs(n))
    ELSE IF m < 0 THEN -(Abs(m) % Abs(n))
    ELSE m % Abs(n)

\* i32::pow(base, exp): [ovf |-> the mathematical power left i32, val |-> the
\* power modulo 2^32]
RECURSIVE IntPow(_, _)
IntPow(base, exp) ==
    IF exp = 0 THEN [ovf |-> FALSE, val |-> 1]
    ELSE LET r == IntPow(base, exp - 1)
         IN  [ovf |-> r.ovf \/ MulOverflows(r.val, base),
              val |-> WrapMul(r.val, base)]

\* an overflowing operation panics where the build checks for overflow
OverflowPanics(ovf) == ovf /\ build = "debug"

---------------------------------------------------------------------------
(* FieldElement *)

\* A FieldElement is a record [value, magnitude, normalized].

\* What a call comes to: Ok(..) or Err(..) of a Result, a panic of the thread,
\* the plain i32 that mod_inverse returns; NoResult before any call
Ok(fe) == [tag |-> "Ok", fe |-> fe]
Err(msg) == [tag |-> "Err", err |-> msg]
Panic == [tag |-> "Panic"]
IntRet(n) == [tag |-> "Int", int |-> n]
NoResult == [tag |-> "None"]

\* Option<..>
Some(fe) == [some |-> TRUE, fe |-> fe]
None == [some |-> FALSE]

FieldElement_new(value, magnitude) ==
    IF magnitude <= 0 \/ value < 0 \/ value >= magnitude
    THEN Err("Invalid magnitude or value")
    ELSE Ok([value |-> value, magnitude |-> magnitude,
             normalized |-> magnitude <= 1])

FieldElement_zero(magnitude) ==
    [value |-> 0, magnitude |-> magnitude, normalized |-> magnitude <= 1]

\* the tail every arithmetic method shares: `FieldElement::new(..)?`, then the
\* magnitude and normalization checks of the new element
Checked(new_value, self) ==
    LET r == FieldElement_new(new_value, self.magnitude)
    IN  IF r.tag # "Ok" THEN r
        ELSE IF r.fe.magnitude # self.magnitude
             THEN Err("Invalid magnitude of result FieldElement")
        ELSE IF r.fe.normalized # (r.fe.magnitude <= 1)
             THEN Err("Invalid normalization of result FieldElement")
        ELSE Ok(r.fe)

\* `n % self.magnitude`, then the shared tail
Reduced(n, self) ==
    IF DivPanics(n, self.magnitude) THEN Panic
    ELSE Checked(RemT(n, self.magnitude), self)

FieldElement_add(self, other) ==
    IF self.magnitude # other.magnitude
    THEN Err("Cannot add two numbers in different Fields")
    ELSE IF OverflowPanics(AddOverflows(self.value, other.value)) THEN Panic
    ELSE Reduced(WrapAdd(self.value, other.value), self)

FieldElement_sub(self, other) ==
    IF self.magnitude # other.magnitude
    THEN Err("Cannot subtract two numbers in different Fields")
    ELSE IF OverflowPanics(SubOverflows(self.value, other.value)) THEN Panic
    ELSE IF DivPanics(WrapSub(self.value, other.value), self.magnitude)
         THEN Panic
    ELSE LET new_value == RemT(WrapSub(self.value, other.value), self.magnitude)
         IN  IF new_value < 0
             THEN IF OverflowPanics(AddOverflows(new_value, self.magnitude))
                  THEN Panic
                  ELSE Checked(WrapAdd(new_value, self.magnitude), self)
             ELSE Checked(new_value, self)

FieldElement_mul(self, other) ==
    IF self.magnitude # other.magnitude
    THEN Err("Cannot multiply two numbers in different Fields")
    ELSE IF OverflowPanics(MulOverflows(self.value, other.value)) THEN Panic
    ELSE Reduced(WrapMul(self.value, other.value), self)

FieldElement_pow(self, exp) ==
    IF exp < 0 THEN Err("Exponent must be non-negative")
    ELSE LET p == IntPow(self.value, exp)
         IN  IF OverflowPanics(p.ovf) THEN Panic
             ELSE Reduced(p.val, self)

\* the loop of mod_inverse without `x1 = t`: x1 keeps its first value
RECURSIVE ModInverseLoop_keeps_x1(_, _, _, _)
ModInverseLoop_keeps_x1(m0, a0, x0, x1) ==
    IF a0 > 1
    THEN IF DivPanics(a0, m0) THEN Panic
         ELSE LET q == DivT(a0, m0)
              IN  IF OverflowPanics(MulOverflows(q, x0)) THEN Panic
                  ELSE IF OverflowPanics(SubOverflows(x1, WrapMul(q, x0)))
                       THEN Panic
                  ELSE ModInverseLoop_keeps_x1(RemT(a0, m0), m0,
                                               WrapSub(x1, WrapMul(q, x0)), x1)
    ELSE IntRet(x1)

\* the loop of mod_inverse on (m0, a0, x0, x1); the value of x1 it leaves, or
\* a panic
RECURSIVE ModInverseLoop(_, _, _, _)
ModInverseLoop(m0, a0, x0, x1) ==
    IF a0 > 1
    THEN IF DivPanics(a0, m0) THEN Panic
         ELSE LET q == DivT(a0, m0)
              IN  IF OverflowPanics(MulOverflows(q, x0)) THEN Panic
                  ELSE IF OverflowPanics(SubOverflows(x1, WrapMul(q, x0)))
                       THEN Panic
                  ELSE ModInverseLoop(RemT(a0, m0), m0,
                                      WrapSub(x1, WrapMul(q, x0)), x0)
    ELSE IntRet(x1)

\* mod_inverse without its last step, `if x1 < 0 { x1 = x1 + m }`
mod_inverse_unnormalized(a0, m) ==
    IF m = 1 THEN IntRet(0) ELSE ModInverseLoop(m, a0, 0, 1)

mod_inverse(a0, m) ==
    IF m = 1 THEN IntRet(0)
    ELSE LET r == ModInverseLoop(m, a0, 0, 1)
         IN  IF r.tag = "Panic" THEN Panic
             ELSE IF r.int < 0
                  THEN IF OverflowPanics(AddOverflows(r.int, m)) THEN Panic
                       ELSE IntRet(WrapAdd(r.int, m))
             ELSE IntRet(r.int)

FieldElement_truediv(self, other) ==
    IF self.magnitude # other.magnitude
    THEN Err("Cannot divide two numbers in different Fields")
    ELSE LET inv == mod_inverse(other.value, self.magnitude)
         IN  IF inv.tag = "Panic" THEN Panic
             ELSE IF OverflowPanics(MulOverflows(self.value, inv.int))
                  THEN Panic
             ELSE Reduced(WrapMul(self.value, inv.int), self)

FieldElement_rmul(self, coefficient) ==
    IF OverflowPanics(MulOverflows(self.value, coefficient)) THEN Panic
    ELSE Reduced(WrapMul(self.value, coefficient), self)

---------------------------------------------------------------------------
(* Point *)

\* A Point is a record [x, y, a, b, infinity], x and y Option<FieldElement>.

\* Ok(..) of a Result<Point, &'static str>, and Some(..) of an Option<Point>
POk(pt) == [tag |-> "Ok", pt |-> pt]
SomeP(pt) == [some |-> TRUE, pt |-> pt]

\* a coordinate computation that failed fails the point operation it is part
\* of, with its own error or panic
Failed(r) == r

\* The operators the Point methods write between field elements (+, -, *, /,
\* and an integer times an element) are the FieldElement methods of the same
\* meaning (add, sub, mul, truediv, rmul); an operand that failed fails the
\* whole expression.
FAdd(r1, r2) ==
    IF r1.tag # "Ok" THEN r1
    ELSE IF r2.tag # "Ok" THEN r2
    ELSE FieldElement_add(r1.fe, r2.fe)
FSub(r1, r2) ==
    IF r1.tag # "Ok" THEN r1
    ELSE IF r2.tag # "Ok" THEN r2
    ELSE FieldElement_sub(r1.fe, r2.fe)
FMul(r1, r2) ==
    IF r1.tag # "Ok" THEN r1
    ELSE IF r2.tag # "Ok" THEN r2
    ELSE FieldElement_mul(r1.fe, r2.fe)
FDiv(r1, r2) ==
    IF r1.tag # "Ok" THEN r1
    ELSE IF r2.tag # "Ok" THEN r2
    ELSE FieldElement_truediv(r1.fe, r2.fe)
FScale(coefficient, r) ==
    IF r.tag # "Ok" THEN r ELSE FieldElement_rmul(r.fe, coefficient)
FPow(r, exp) == IF r.tag # "Ok" THEN r ELSE FieldElement_pow(r.fe, exp)

\* `FieldElement::zero()` is written without its magnitude: the zero of the
\* curve's field, a.magnitude, stands for it.
Point_new(px, py, ca, cb) ==
    LET built == POk([x |-> Some(IF px.some THEN px.fe
                                 ELSE FieldElement_zero(ca.magnitude)),
                      y |-> Some(IF py.some THEN py.fe
                                 ELSE FieldElement_zero(ca.magnitude)),
                      a |-> ca, b |-> cb, infinity |-> ~px.some])
    IN  IF px.some /\ py.some
        THEN LET x_cubed == FieldElement_pow(px.fe, 3)
                 y_squared == FieldElement_pow(py.fe, 2)
                 equation == FAdd(FAdd(x_cubed, FMul(Ok(ca), Ok(px.fe))), Ok(cb))
             IN  IF x_cubed.tag # "Ok" THEN Failed(x_cubed)
                 ELSE IF y_squared.tag # "Ok" THEN Failed(y_squared)
                 ELSE IF equation.tag # "Ok" THEN Failed(equation)
                 ELSE IF y_squared # equation
                      THEN Err("Point is not on the curve")
                 ELSE built
        ELSE built

\* `Point::new(Some(x3), Some(y3), self.a, self.b)?` on computed coordinates
NewFrom(x3, y3, ca, cb) ==
    IF x3.tag # "Ok" THEN Failed(x3)
    ELSE IF y3.tag # "Ok" THEN Failed(y3)
    ELSE Point_new(Some(x3.fe), Some(y3.fe), ca, cb)

\* `self == other`: s = (3 * x^2 + a) / (2 * y)
Doubling(self) ==
    LET sx == Ok(self.x.fe)
        sy == Ok(self.y.fe)
        s == FDiv(FAdd(FScale(3, FPow(sx, 2)), Ok(self.a)), FScale(2, sy))
        x3 == FSub(FPow(s, 2), FScale(2, sx))
        y3 == FSub(FMul(s, FSub(sx, x3)), sy)
    IN  NewFrom(x3, y3, self.a, self.b)

\* `self.x != other.x`: s = (other.y - self.y) / (other.x - self.x)
Chord(self, other) ==
    LET sx == Ok(self.x.fe)
        sy == Ok(self.y.fe)
        ox == Ok(other.x.fe)
        oy == Ok(other.y.fe)
        s == FDiv(FSub(oy, sy), FSub(ox, sx))
        x3 == FSub(FSub(FPow(s, 2), sx), ox)
        y3 == FSub(FMul(s, FSub(sx, x3)), sy)
    IN  NewFrom(x3, y3, self.a, self.b)

\* `self.x.infinity()` reads the point's infinity flag.
Point_add(self, other) ==
    IF self.a # other.a \/ self.b # other.b
    THEN Err("Points are not on the same curve")
    ELSE IF self.infinity THEN POk(other)
    ELSE IF other.infinity THEN POk(self)
    ELSE IF self.x = other.x /\ self.y # other.y
         THEN Point_new(None, None, self.a, self.b)
    ELSE IF self = other THEN Doubling(self)
    ELSE IF self.x # other.x THEN Chord(self, other)
    ELSE Err("Unexpected condition reached")

\* the while loop of Point::rmul on (coef, current, result)
RECURSIVE RmulLoop(_, _, _)

\* `coef >>= 1` and the next turn, once `current.add(&current)?` is through
RmulShift(coef, doubled, result) ==
    IF doubled.tag # "Ok" THEN doubled
    ELSE RmulLoop(coef \div 2, doubled.pt, result)

\* `current = current.add(&current)?`, once `result.add(&current)?` is through
RmulDouble(coef, current, added) ==
    IF added.tag # "Ok" THEN added
    ELSE RmulShift(coef, Point_add(current, current), added.pt)

RmulLoop(coef, current, result) ==
    IF coef > 0
    THEN RmulDouble(coef, current,
                    IF coef % 2 = 1 THEN Point_add(result, current)
                    ELSE POk(result))
    ELSE POk(result)

Point_rmul(self, coefficient) ==
    LET result == Point_new(None, None, self.a, self.b)
    IN  IF result.tag # "Ok" THEN result
        ELSE RmulLoop(coefficient, self, result.pt)

\* trial division; 46340 is the integer square root of MaxI32
IsPrime(n) ==
    /\ n > 1
    /\ \A d \in 2 .. (IF n > 46340 THEN 46340 ELSE n - 1) : n % d # 0

---------------------------------------------------------------------------
(* A caller of the field arithmetic: two bindings x and y, the last call and
   what it returned. *)

Builds == {"debug", "release"}

MaxSmallMod == 5
MaxExp == 3
MaxCoef == 3

\* (value, magnitude) arguments of FieldElement::new: the values of every
\* small field and the ones just outside it, and pairs at the edges of i32
\* (46340^2 is the last square that fits; 46337 and 46349 are the primes on
\* either side of it, MaxI32 is prime)
SmallInputs ==
    { in \in (-1 .. MaxSmallMod) \X (-1 .. MaxSmallMod) :
        in[1] <= in[2] \/ in[1] <= 0 }
LargeInputs ==
    { <<1, 46337>>, <<2, 46337>>, <<46336, 46337>>, <<46337, 46337>>,
      <<46341, 46349>>, <<46348, 46349>>,
      <<1073741824, MaxI32>>, <<MaxI32 - 1, MaxI32>>, <<MaxI32, MaxI32>> }
NewInputs == SmallInputs \cup LargeInputs

Exps == -1 .. MaxExp
Coefs == -1 .. MaxCoef

Called(op, arg) == [op |-> op, arg |-> arg]

Init ==
    /\ build \in Builds
    /\ x = None
    /\ y = None
    /\ ret = NoResult
    /\ call = Called("none", 0)
    /\ a = None
    /\ b = None
    /\ P = None
    /\ Q = None
    /\ pret = NoResult
    /\ pcall = [op |-> "none"]

New ==
    \E in \in NewInputs :
        /\ ret' = FieldElement_new(in[1], in[2])
        /\ call' = Called("new", 0)
        /\ UNCHANGED << build, x, y, pvars >>

Zero ==
    \E magnitude \in -1 .. MaxSmallMod :
        /\ ret' = Ok(FieldElement_zero(magnitude))
        /\ call' = Called("zero", magnitude)
        /\ UNCHANGED << build, x, y, pvars >>

\* `let x = <the last call>?`: results are bound again within the small
\* fields, where the elements are few.  call = "bind" says that ret is no
\* longer the result of a call on the present x and y.
Bindable ==
    /\ ret.tag = "Ok"
    /\ call.op \in {"new", "zero"} \/ ret.fe.magnitude <= MaxSmallMod

BindX ==
    /\ Bindable
    /\ x' = Some(ret.fe)
    /\ call' = Called("bind", 0)
    /\ UNCHANGED << build, y, ret, pvars >>

BindY ==
    /\ Bindable
    /\ y' = Some(ret.fe)
    /\ call' = Called("bind", 0)
    /\ UNCHANGED << build, x, ret, pvars >>

Add ==
    /\ x.some /\ y.some
    /\ ret' = FieldElement_add(x.fe, y.fe)
    /\ call' = Called("add", 0)
    /\ UNCHANGED << build, x, y, pvars >>

Sub ==
    /\ x.some /\ y.some
    /\ ret' = FieldElement_sub(x.fe, y.fe)
    /\ call' = Called("sub", 0)
    /\ UNCHANGED << build, x, y, pvars >>

Mul ==
    /\ x.some /\ y.some
    /\ ret' = FieldElement_mul(x.fe, y.fe)
    /\ call' = Called("mul", 0)
    /\ UNCHANGED << build, x, y, pvars >>

Truediv ==
    /\ x.some /\ y.some
    /\ ret' = FieldElement_truediv(x.fe, y.fe)
    /\ call' = Called("truediv", 0)
    /\ UNCHANGED << build, x, y, pvars >>

Pow ==
    \E exp \in Exps :
        /\ x.some
        /\ ret' = FieldElement_pow(x.fe, exp)
        /\ call' = Called("pow", exp)
        /\ UNCHANGED << build, x, y, pvars >>

Rmul ==
    \E coefficient \in Coefs :
        /\ x.some
        /\ ret' = FieldElement_rmul(x.fe, coefficient)
        /\ call' = Called("rmul", coefficient)
        /\ UNCHANGED << build, x, y, pvars >>

\* mod_inverse(other.value, self.magnitude), the call truediv makes
ModInverse ==
    /\ x.some /\ y.some
    /\ ret' = mod_inverse(y.fe.value, x.fe.magnitude)
    /\ call' = Called("mod_inverse", 0)
    /\ UNCHANGED << build, x, y, pvars >>

Next ==
    \/ New
    \/ Zero
    \/ BindX
    \/ BindY
    \/ Add
    \/ Sub
    \/ Mul
    \/ Truediv
    \/ Pow
    \/ Rmul
    \/ ModInverse

Spec == Init /\ [][Next]_vars

---------------------------------------------------------------------------
(* Properties of the field arithmetic, under Spec *)

\* I1 and I2: modulus > 0 and 0 <= value < modulus
Valid(fe) == fe.magnitude > 0 /\ 0 <= fe.value /\ fe.value < fe.magnitude

\* x and y are valid elements of one field
SameField ==
    /\ x.some /\ y.some
    /\ Valid(x.fe) /\ Valid(y.fe)
    /\ x.fe.magnitude = y.fe.magnitude

\* C2: x.truediv(zero), for x and the zero element of one field, fails with
\* an error and never returns a FieldElement.
C2_TruedivByZeroFails ==
    (call.op = "truediv" /\ SameField /\ y.fe.value = 0) => ret.tag = "Err"

\* C3: for valid x and y of one field, of any modulus an i32 holds, add, sub
\* and mul each return Ok with an element of that modulus whose value lies in
\* [0, modulus).
C3_Closure ==
    (call.op \in {"add", "sub", "mul"} /\ SameField)
        => /\ ret.tag = "Ok"
           /\ ret.fe.magnitude = x.fe.magnitude
           /\ Valid(ret.fe)

C9_EveryElementValid ==
    /\ (/\ ret.tag = "Ok"
        /\ call.op \in {"new", "zero", "add", "sub", "mul", "pow", "truediv",
                        "rmul"})
           => Valid(ret.fe)
    /\ x.some => Valid(x.fe)
    /\ y.some => Valid(y.fe)

\* (u + v) modulo m for 0 <= u, v < m, without leaving the checker's integers
AddMod(u, v, m) == IF u >= m - v THEN u - (m - v) ELSE u + v

\* (u * v) modulo m for 0 <= u < m and v >= 0, by shift-and-add on the bits
\* of v
RECURSIVE MulMod(_, _, _)
MulMod(u, v, m) ==
    IF ~MulOverflows(u, v) THEN (u * v) % m
    ELSE IF v % 2 = 1 THEN AddMod(u, MulMod(AddMod(u, u, m), v \div 2, m), m)
    ELSE MulMod(AddMod(u, u, m), v \div 2, m)

\* C11: for a prime modulus m and 0 < a < m, mod_inverse(a, m) returns, with
\* no division by zero or other panic, an r with 0 <= r < m and
\* (a * r) mod m = 1; for m = 1 it returns 0.
C11_ModInverseIsInverse ==
    (call.op = "mod_inverse")
        => /\ (/\ IsPrime(x.fe.magnitude)
                /\ 0 < y.fe.value /\ y.fe.value < x.fe.magnitude)
              => /\ ret.tag = "Int"
                 /\ 0 <= ret.int /\ ret.int < x.fe.magnitude
                 /\ MulMod(y.fe.value, ret.int, x.fe.magnitude) = 1
           /\ x.fe.magnitude = 1 => ret = IntRet(0)

\* the inverse of 2^30 modulo the prime 2^31 - 1 is 2
C11_Witness ==
    /\ call.op = "mod_inverse"
    /\ x.fe.magnitude = MaxI32 /\ y.fe.value = 1073741824
    /\ ret = IntRet(2)

---------------------------------------------------------------------------
(* A caller of the point group: a curve (a, b), two bindings P and Q, the
   last call and what it returned. *)

MaxCurveMod == 5
MaxCurveA == 2
MaxScalar == 3

\* the small fields the curves are drawn over, of characteristic above 3
CurveMods == { m \in 5 .. MaxCurveMod : IsPrime(m) }

\* a curve and coordinates of a field large enough for x^3 to leave i32:
\* 1291^3 > MaxI32, and (1291, 0) lies on y^2 = x^3 + 216 modulo 1297
LargeMod == [m |-> 1297, a |-> 0, b |-> 216, coords |-> {0, 1291}]

Element(value, magnitude) == FieldElement_new(value, magnitude).fe

\* the coordinate arguments of Point::new on the curve (a, b)
Coords ==
    IF a.magnitude = LargeMod.m THEN LargeMod.coords
    ELSE 0 .. a.magnitude - 1

CoordArgs == {None} \cup { Some(Element(v, a.magnitude)) : v \in Coords }

PCalled(op, px, py, k) == [op |-> op, x |-> px, y |-> py, k |-> k]

PointInit ==
    /\ build \in Builds
    /\ x = None
    /\ y = None
    /\ ret = NoResult
    /\ call = Called("none", 0)
    /\ \/ \E m \in CurveMods : \E av \in 0 .. MaxCurveA, bv \in 0 .. m - 1 :
            a = Element(av, m) /\ b = Element(bv, m)
       \/ /\ a = Element(LargeMod.a, LargeMod.m)
          /\ b = Element(LargeMod.b, LargeMod.m)
    /\ P = None
    /\ Q = None
    /\ pret = NoResult
    /\ pcall = [op |-> "none"]

\* The caller opens with `let p = Point::new(x, y, a, b)?;` and
\* `let q = Point::new(x, y, a, b)?;`: an error leaves the caller, and its
\* bindings with it.
NewP ==
    \E px \in CoordArgs, py \in CoordArgs :
        /\ ~P.some
        /\ pret' = Point_new(px, py, a, b)
        /\ pcall' = PCalled("new", px, py, 0)
        /\ P' = IF Point_new(px, py, a, b).tag = "Ok"
                THEN SomeP(Point_new(px, py, a, b).pt) ELSE None
        /\ Q' = None
        /\ UNCHANGED << a, b, fvars >>

NewQ ==
    \E px \in CoordArgs, py \in CoordArgs :
        /\ P.some /\ ~Q.some
        /\ pret' = Point_new(px, py, a, b)
        /\ pcall' = PCalled("new", px, py, 0)
        /\ Q' = IF Point_new(px, py, a, b).tag = "Ok"
                THEN SomeP(Point_new(px, py, a, b).pt) ELSE None
        /\ P' = IF Point_new(px, py, a, b).tag = "Ok" THEN P ELSE None
        /\ UNCHANGED << a, b, fvars >>

\* `let p = <the last call>?` later on; pcall = "bind" says that pret is no longer
\* the result of a call on the present P and Q
BindP ==
    /\ pret.tag = "Ok"
    /\ P' = SomeP(pret.pt)
    /\ pcall' = [op |-> "bind"]
    /\ UNCHANGED << a, b, Q, pret, fvars >>

BindQ ==
    /\ pret.tag = "Ok"
    /\ Q' = SomeP(pret.pt)
    /\ pcall' = [op |-> "bind"]
    /\ UNCHANGED << a, b, P, pret, fvars >>

PAdd ==
    /\ P.some /\ Q.some
    /\ pret' = Point_add(P.pt, Q.pt)
    /\ pcall' = PCalled("add", None, None, 0)
    /\ UNCHANGED << a, b, P, Q, fvars >>

PRmul ==
    \E coefficient \in 0 .. MaxScalar :
        /\ P.some
        /\ pret' = Point_rmul(P.pt, coefficient)
        /\ pcall' = PCalled("rmul", None, None, coefficient)
        /\ UNCHANGED << a, b, P, Q, fvars >>

PointNext ==
    \/ NewP
    \/ NewQ
    \/ BindP
    \/ BindQ
    \/ PAdd
    \/ PRmul

PointSpec == PointInit /\ [][PointNext]_vars

---------------------------------------------------------------------------
(* Properties of the point group, under PointSpec *)

\* y^2 = x^3 + a*x + b in the integers modulo m (m small enough for the
\* products below to stay within the checker's integers)
OnCurve(xv, yv, av, bv, m) ==
    (yv * yv) % m
        = (((((xv * xv) % m) * xv) % m) + ((av * xv) % m) + bv) % m

\* the curve is an elliptic curve over a prime field: 4a^3 + 27b^2 # 0
NonSingular ==
    /\ IsPrime(a.magnitude)
    /\ (4 * a.value * a.value * a.value + 27 * b.value * b.value)
         % a.magnitude # 0

\* Point::new(None, None, a, b), the point at infinity of the curve
Infinity == Point_new(None, None, a, b)

\* pt is the point at infinity as built from no coordinates, or a finite
\* point of the curve (a, b)
OnTheCurve(pt) ==
    /\ pt.a = a /\ pt.b = b
    /\ IF pt.infinity THEN POk(pt) = Infinity
       ELSE /\ Valid(pt.x.fe) /\ Valid(pt.y.fe)
            /\ pt.x.fe.magnitude = a.magnitude
            /\ pt.y.fe.magnitude = a.magnitude
            /\ OnCurve(pt.x.fe.value, pt.y.fe.value, a.value, b.value,
                       a.magnitude)

\* p added k times to the point at infinity with Point::add
RECURSIVE RepeatedAdd(_, _)
RepeatedAdd(p, k) ==
    IF k = 0 THEN Infinity
    ELSE LET sum == RepeatedAdd(p, k - 1)
         IN  IF sum.tag # "Ok" THEN sum ELSE Point_add(sum.pt, p)

\* C1: with both coordinates present, Point::new fails with the not-on-curve
\* error when y^2 # x^3 + a*x + b in the field, and returns the finite point
\* with those coordinates when y^2 = x^3 + a*x + b.
C1_NewChecksTheCurve ==
    (pcall.op = "new" /\ pcall.x.some /\ pcall.y.some)
        => IF OnCurve(pcall.x.fe.value, pcall.y.fe.value, a.value, b.value,
                      a.magnitude)
           THEN pret = POk([x |-> pcall.x, y |-> pcall.y, a |-> a, b |-> b,
                            infinity |-> FALSE])
           ELSE pret = Err("Point is not on the curve")

\* C4: for a point P of a curve and a small k >= 0, P.rmul(k) succeeds and
\* equals P added k times to the point at infinity; P.rmul(0) is the point at
\* infinity and P.rmul(2) equals P.add(P).
C4_RmulIsRepeatedAdd ==
    (pcall.op = "rmul" /\ NonSingular /\ OnTheCurve(P.pt))
        => /\ pret.tag = "Ok"
           /\ pret = RepeatedAdd(P.pt, pcall.k)
           /\ pcall.k = 0 => pret = Infinity
           /\ pcall.k = 2 => pret = Point_add(P.pt, P.pt)

\* C5: for a finite point P = (x, y) of a curve, P.add(Point(x, -y mod m))
\* equals the point at infinity, also when y = 0 and the second operand is P
\* itself.
C5_AddOfInverseIsInfinity ==
    (/\ pcall.op = "add" /\ NonSingular
     /\ OnTheCurve(P.pt) /\ OnTheCurve(Q.pt)
     /\ ~P.pt.infinity /\ ~Q.pt.infinity
     /\ Q.pt.x = P.pt.x
     /\ Q.pt.y.fe.value = (a.magnitude - P.pt.y.fe.value) % a.magnitude)
        => pret = Infinity

\* C6: for points P, Q, R of one curve, (P.add(Q)).add(R) and P.add(Q.add(R))
\* both succeed and are equal; here pret is P.add(Q), and R is P or Q.
C6_AddIsAssociative ==
    (/\ pcall.op = "add" /\ NonSingular
     /\ OnTheCurve(P.pt) /\ OnTheCurve(Q.pt))
        => \A r \in {P.pt, Q.pt} :
              /\ pret.tag = "Ok"
              /\ Point_add(Q.pt, r).tag = "Ok"
              /\ Point_add(pret.pt, r).tag = "Ok"
              /\ Point_add(pret.pt, r) = Point_add(P.pt, Point_add(Q.pt, r).pt)

\* C7: for any point P and the point at infinity O built on the same curve,
\* P.add(O) = P and O.add(P) = P.
C7_InfinityIsIdentity ==
    (pcall.op = "add")
        => /\ POk(Q.pt) = Infinity => pret = POk(P.pt)
           /\ POk(P.pt) = Infinity => pret = POk(Q.pt)

\* C10: when a coordinate passed to Point::new is absent, the result is the
\* point at infinity: its infinity flag is set, and it equals
\* Point::new(None, None, a, b).
C10_AbsentCoordinateIsInfinity ==
    (pcall.op = "new" /\ (~pcall.x.some \/ ~pcall.y.some))
        => /\ pret.tag = "Ok"
           /\ pret.pt.infinity
           /\ pret = Infinity

====
